---- MODULE Spec2Model ----
(***************************************************************************)
(* Model of password-generator/password_generator.py: the constrained      *)
(* random generator (generate_password, generate_multiple), the strength   *)
(* analyzer (check_strength) and the command line driver (main).           *)
(* Characters are one-character strings, Python strings are sequences of   *)
(* characters.                                                             *)
(***************************************************************************)
EXTENDS Integers, Sequences, FiniteSets, TLC

VARIABLES
    pc,              \* position of the running call
    kw,              \* keyword arguments of generate_password
    count,           \* generate_multiple's count
    char_pool,       \* generate_password: char_pool
    required_chars,  \* generate_password: required_chars
    password_chars,  \* generate_password: password_chars
    draws,           \* calls of the secure random source in the current generate_password
    raised,          \* "none", or the ValueError raised
    passwords,       \* generate_multiple: the list built so far / returned
    password,        \* check_strength: its argument
    analysis,        \* check_strength: the dictionary it returns
    char_pool_size,  \* check_strength: char_pool_size
    score,           \* check_strength: score
    cli,             \* main: the parsed command line (args)
    calls,           \* main: which functions were invoked
    files            \* main: the files written by save_passwords_to_file

vars == <<pc, kw, count, char_pool, required_chars, password_chars, draws,
          raised, passwords, password, analysis, char_pool_size, score,
          cli, calls, files>>

genVars == <<char_pool, required_chars, password_chars, draws>>
strengthVars == <<password, analysis, char_pool_size, score>>
mainVars == <<cli, files>>

----------------------------------------------------------------------------
(* Bounds of the model. *)

MaxMin == 2         \* largest min_* argument
MaxCount == 2       \* largest count of generate_multiple
MaxPrefix == 13     \* analysed passwords: most distinct leading characters
MaxRepeat == 10     \* analysed passwords: most repetitions of the trailing character

\* The characters the secure random source is seen to return in a run.
Sample == {"a", "l", "B", "O", "7", "0", "#"}

\* custom_chars values: empty, or an ambiguous lowercase letter
CustomChoices == {<<>>, <<"l">>}

----------------------------------------------------------------------------
(* PasswordGenerator.__init__ *)

lowercase ==
    <<"a","b","c","d","e","f","g","h","i","j","k","l","m",
      "n","o","p","q","r","s","t","u","v","w","x","y","z">>

uppercase ==
    <<"A","B","C","D","E","F","G","H","I","J","K","L","M",
      "N","O","P","Q","R","S","T","U","V","W","X","Y","Z">>

digits == <<"0","1","2","3","4","5","6","7","8","9">>

special_chars ==
    <<"!","@","#","$","%","^","&","*","(",")","-","_","+",
      "=","[","]","{","}","|",";",":",",",".","<",">","?">>

ambiguous_chars == <<"i","l","1","L","o","0","O">>

Range(s) == {s[i] : i \in DOMAIN s}

Max(a, b) == IF a >= b THEN a ELSE b

\* ''.join(c for c in chars if c not in self.ambiguous_chars)
FilterAmbiguous(chars) == SelectSeq(chars, LAMBDA c : c \notin Range(ambiguous_chars))

\* mutation: the ambiguous characters are never removed
EffectiveUnfiltered(chars, exclude_ambiguous) == chars

\* chars as used by one class block: filtered when exclude_ambiguous is set
Effective(chars, exclude_ambiguous) ==
    IF exclude_ambiguous THEN FilterAmbiguous(chars) ELSE chars

\* secrets.choice(seq): any element of seq (within the sampled characters)
Choice(seq) == {seq[i] : i \in DOMAIN seq} \cap Sample

\* mutation: one draw too few
ChoiceListShort(seq, n) == IF n <= 1 THEN {<<>>} ELSE [1..(n - 1) -> Choice(seq)]

\* [secrets.choice(seq) for _ in range(n)]: range(n) is empty for n <= 0
ChoiceList(seq, n) == IF n <= 0 THEN {<<>>} ELSE [1..n -> Choice(seq)]

\* number of secrets.choice calls made by that comprehension
ChoiceCalls(n) == Max(n, 0)

\* secrets.SystemRandom().shuffle(x): any rearrangement of x
Shuffles(x) ==
    {[i \in 1..Len(x) |-> x[p[i]]] : p \in Permutations(1..Len(x))}

----------------------------------------------------------------------------
(* PasswordGenerator.generate_password, one action per block of its body *)

\* line 59: the shortest accepted length
MinLength == 4

\* line 59: the length check, then char_pool = "" and required_chars = []
CheckLength ==
    /\ pc = "gp_entry"
    /\ draws' = 0
    /\ password_chars' = <<>>
    /\ IF kw.length < MinLength
       THEN /\ raised' = "length"
            /\ pc' = "raised"
            /\ UNCHANGED <<char_pool, required_chars>>
       ELSE /\ char_pool' = <<>>
            /\ required_chars' = <<>>
            /\ pc' = "gp_lowercase"
            /\ UNCHANGED raised
    /\ calls' = calls \cup {"generate_password"}
    /\ UNCHANGED <<kw, count, passwords>>
    /\ UNCHANGED strengthVars /\ UNCHANGED mainVars

\* One "if include_X:" block: extend the pool by the class's characters and draw
\* the class's minimum into required_chars.
ClassBlock(here, next, include, alphabet, filtered, min) ==
    /\ pc = here
    /\ pc' = next
    /\ IF include
       THEN LET chars == Effective(alphabet, filtered) IN
            /\ char_pool' = char_pool \o chars
            /\ \E drawn \in ChoiceList(chars, min) :
                   required_chars' = required_chars \o drawn
            /\ draws' = draws + ChoiceCalls(min)
       ELSE UNCHANGED <<char_pool, required_chars, draws>>
    /\ UNCHANGED <<kw, count, password_chars, raised, passwords, calls>>
    /\ UNCHANGED strengthVars /\ UNCHANGED mainVars

\* lines 66-71
LowercaseBlock ==
    ClassBlock("gp_lowercase", "gp_uppercase", kw.include_lowercase,
               lowercase, kw.exclude_ambiguous, kw.min_lowercase)

\* lines 73-78
UppercaseBlock ==
    ClassBlock("gp_uppercase", "gp_digits", kw.include_uppercase,
               uppercase, kw.exclude_ambiguous, kw.min_uppercase)

\* lines 80-85
DigitsBlock ==
    ClassBlock("gp_digits", "gp_special", kw.include_digits,
               digits, kw.exclude_ambiguous, kw.min_digits)

\* lines 87-90: special characters are never filtered
SpecialBlock ==
    ClassBlock("gp_special", "gp_custom", kw.include_special,
               special_chars, FALSE, kw.min_special)

\* mutation: the lowercase letters are always part of the pool
PoolWithCustomAndLowercase(pool, custom_chars) == pool \o custom_chars \o lowercase

\* lines 92-93: the pool with custom_chars appended when custom_chars is non-empty
PoolWithCustom(pool, custom_chars) ==
    IF custom_chars # <<>> THEN pool \o custom_chars ELSE pool

\* mutation: the comparison is off by one
MinimumReaches(total_min_chars, length) == total_min_chars >= length

\* line 100
MinimumExceeds(total_min_chars, length) == total_min_chars > length

\* lines 92-101: custom characters, the empty-pool check, the minimum check
CustomAndChecks ==
    /\ pc = "gp_custom"
    /\ char_pool' = PoolWithCustom(char_pool, kw.custom_chars)
    /\ IF char_pool' = <<>>
       THEN /\ raised' = "no_types"
            /\ pc' = "raised"
       ELSE IF MinimumExceeds(Len(required_chars), kw.length)
       THEN /\ raised' = "minimum"
            /\ pc' = "raised"
       ELSE /\ pc' = "gp_fill"
            /\ UNCHANGED raised
    /\ UNCHANGED <<kw, count, required_chars, password_chars, draws, passwords, calls>>
    /\ UNCHANGED strengthVars /\ UNCHANGED mainVars

\* mutation: the required characters are not subtracted
RemainingLengthWhole(length, total_min_chars) == length

\* line 104
RemainingLength(length, total_min_chars) == length - total_min_chars

\* generate_multiple, line 114: after a call returns, the comprehension either
\* calls generate_password again or the list is complete
AfterCall(n, cnt) == IF n < cnt THEN "gp_entry" ELSE "gm_done"

\* lines 103-110 and the list comprehension of line 114: the remaining characters
\* are drawn from the whole pool, the list is shuffled and joined, and the
\* caller's list takes the returned string
FillShuffleReturn ==
    /\ pc = "gp_fill"
    /\ LET remaining_length == RemainingLength(kw.length, Len(required_chars)) IN
       /\ \E filler \in ChoiceList(char_pool, remaining_length) :
          \E shuffled \in Shuffles(required_chars \o filler) :
              /\ password_chars' = shuffled
              /\ passwords' = Append(passwords, shuffled)
       /\ draws' = draws + ChoiceCalls(remaining_length)
    /\ pc' = AfterCall(Len(passwords'), count)
    /\ UNCHANGED <<kw, count, char_pool, required_chars, raised, calls>>
    /\ UNCHANGED strengthVars /\ UNCHANGED mainVars

----------------------------------------------------------------------------
(* PasswordGenerator.generate_multiple *)

\* line 114: entry; range(count) is empty for count <= 0
GenerateMultiple ==
    /\ pc = "gm_entry"
    /\ pc' = AfterCall(Len(passwords), count)
    /\ calls' = calls \cup {"generate_multiple"}
    /\ UNCHANGED <<kw, count, raised, passwords>>
    /\ UNCHANGED genVars /\ UNCHANGED strengthVars /\ UNCHANGED mainVars

----------------------------------------------------------------------------
(* PasswordGenerator.check_strength *)

\* any(c in alphabet for c in password)
AnyIn(password_, alphabet) == \E i \in DOMAIN password_ : password_[i] \in Range(alphabet)

\* len(set(password))
UniqueChars(password_) == Cardinality(Range(password_))

\* lines 139-147: the sizes of the classes present, summed
CharPoolSize(has_lowercase, has_uppercase, has_digits, has_special) ==
    (IF has_lowercase THEN 26 ELSE 0)
    + (IF has_uppercase THEN 26 ELSE 0)
    + (IF has_digits THEN 10 ELSE 0)
    + (IF has_special THEN Len(special_chars) ELSE 0)

\* math.log2(n) in millionths of a bit, rounded down, for the pool sizes that
\* CharPoolSize can produce
Log2Micro(n) ==
    CASE n = 10 -> 3321928
      [] n = 26 -> 4700439
      [] n = 36 -> 5169925
      [] n = 52 -> 5700439
      [] n = 62 -> 5954196
      [] n = 78 -> 6285402
      [] n = 88 -> 6459431

\* lines 149-151: entropy, in millionths of a bit
Entropy(len, pool_size) == IF pool_size > 0 THEN len * Log2Micro(pool_size) ELSE 0

\* mutation: a strict comparison
UniqueStrictly(unique_chars, len) == unique_chars * 10 > len * 8

\* line 167: unique_chars >= len(password) * 0.8 (0.8 as 8/10; the float product
\* is exact for every length explored)
UniqueEnough(unique_chars, len) == unique_chars * 10 >= len * 8

\* mutation: the threshold is 80 bits
EntropyEnough80(entropy) == entropy >= 80 * 1000000

\* line 169: entropy >= 60
EntropyEnough(entropy) == entropy >= 60 * 1000000

Bit(b) == IF b THEN 1 ELSE 0

\* lines 154-170
Score(a) ==
    Bit(a.length >= 8) + Bit(a.length >= 12)
    + Bit(a.has_lowercase) + Bit(a.has_uppercase)
    + Bit(a.has_digits) + Bit(a.has_special)
    + Bit(UniqueEnough(a.unique_chars, a.length))
    + Bit(EntropyEnough(a.entropy))

\* mutation: the first threshold is 3
StrengthShifted(score_) ==
    IF score_ <= 3 THEN "Very Weak"
    ELSE IF score_ <= 4 THEN "Weak"
    ELSE IF score_ <= 6 THEN "Moderate"
    ELSE IF score_ <= 7 THEN "Strong"
    ELSE "Very Strong"

\* lines 172-181
Strength(score_) ==
    IF score_ <= 2 THEN "Very Weak"
    ELSE IF score_ <= 4 THEN "Weak"
    ELSE IF score_ <= 6 THEN "Moderate"
    ELSE IF score_ <= 7 THEN "Strong"
    ELSE "Very Strong"

\* lines 126-136 and 138-151: the dictionary before the strength is set
Analyze(password_) ==
    LET has_lowercase == AnyIn(password_, lowercase)
        has_uppercase == AnyIn(password_, uppercase)
        has_digits == AnyIn(password_, digits)
        has_special == AnyIn(password_, special_chars)
    IN [length |-> Len(password_),
        has_lowercase |-> has_lowercase,
        has_uppercase |-> has_uppercase,
        has_digits |-> has_digits,
        has_special |-> has_special,
        has_ambiguous |-> AnyIn(password_, ambiguous_chars),
        unique_chars |-> UniqueChars(password_),
        entropy |-> Entropy(Len(password_),
                       CharPoolSize(has_lowercase, has_uppercase, has_digits, has_special)),
        strength |-> "Very Weak"]

\* the whole function: the returned dictionary
check_strength(password_) ==
    LET a == Analyze(password_) IN [a EXCEPT !.strength = Strength(Score(a))]

\* a call of check_strength(password)
CheckStrength ==
    /\ pc = "cs_entry"
    /\ LET a == Analyze(password) IN
       /\ char_pool_size' = CharPoolSize(a.has_lowercase, a.has_uppercase,
                                         a.has_digits, a.has_special)
       /\ score' = Score(a)
       /\ analysis' = check_strength(password)
    /\ pc' = "cs_done"
    /\ calls' = calls \cup {"check_strength"}
    /\ UNCHANGED <<kw, count, raised, passwords, password>>
    /\ UNCHANGED genVars /\ UNCHANGED mainVars

----------------------------------------------------------------------------
(* save_passwords_to_file and main *)

\* an optional command line value: None, or the string given
None == <<>>
Some(x) == <<x>>

\* Python's truth value of an optional string: None and "" are false
Truthy(opt) == opt # None /\ opt[1] # <<>>

\* lines 186-199: the file written
save_passwords_to_file(passwords_, filename, format_type) ==
    [filename |-> filename,
     content |-> IF format_type = "json"
                 THEN <<"json", passwords_, Len(passwords_)>>
                 ELSE <<"txt", [i \in 1..Len(passwords_) |-> <<i, passwords_[i]>>]>>]

\* lines 289-302: the keyword arguments main passes to generate_multiple
KwFromArgs(args) ==
    [length |-> args.length,
     include_uppercase |-> ~args.no_uppercase,
     include_lowercase |-> ~args.no_lowercase,
     include_digits |-> ~args.no_digits,
     include_special |-> ~args.no_special,
     exclude_ambiguous |-> args.exclude_ambiguous,
     custom_chars |-> args.custom_chars,
     min_uppercase |-> IF ~args.no_uppercase THEN args.min_uppercase ELSE 0,
     min_lowercase |-> IF ~args.no_lowercase THEN args.min_lowercase ELSE 0,
     min_digits |-> IF ~args.no_digits THEN args.min_digits ELSE 0,
     min_special |-> IF ~args.no_special THEN args.min_special ELSE 0]

\* line 271: "if args.check:"
CheckRequested(args) == Truthy(args.check)

\* lines 266-272 and 287-289: the strength check when requested, otherwise the
\* call of generate_multiple
Main ==
    /\ pc = "main_entry"
    /\ IF CheckRequested(cli)
       THEN /\ password' = cli.check[1]
            /\ pc' = "cs_entry"
            /\ UNCHANGED <<kw, count>>
       ELSE /\ kw' = KwFromArgs(cli)
            /\ count' = cli.count
            /\ pc' = "gm_entry"
            /\ UNCHANGED password
    /\ UNCHANGED <<raised, passwords, analysis, char_pool_size, score, calls>>
    /\ UNCHANGED genVars /\ UNCHANGED mainVars

\* lines 273-285: the analysis is printed unless quiet, and main returns
MainAfterCheck ==
    /\ pc = "cs_done"
    /\ pc' = "main_return"
    /\ UNCHANGED <<kw, count, raised, passwords, calls>>
    /\ UNCHANGED genVars /\ UNCHANGED strengthVars /\ UNCHANGED mainVars

\* lines 304-324: the passwords are displayed, each one's strength is analysed
\* when asked for, and the list is saved when an output file is named
MainAfterGenerate ==
    /\ pc = "gm_done"
    /\ IF ~cli.quiet /\ cli.show_strength /\ passwords # <<>>
       THEN /\ password' = passwords[Len(passwords)]
            /\ analysis' = check_strength(password')
            /\ calls' = calls \cup {"check_strength"}
       ELSE UNCHANGED <<password, analysis, calls>>
    /\ files' = IF Truthy(cli.output)
                THEN files \cup {save_passwords_to_file(passwords, cli.output[1], cli.format)}
                ELSE files
    /\ pc' = "main_return"
    /\ UNCHANGED <<kw, count, raised, passwords, char_pool_size, score, cli>>
    /\ UNCHANGED genVars

\* lines 326-328: a ValueError ends the process with status 1
MainValueError ==
    /\ pc = "raised"
    /\ pc' = "exit_1"
    /\ UNCHANGED <<kw, count, raised, passwords, calls>>
    /\ UNCHANGED genVars /\ UNCHANGED strengthVars /\ UNCHANGED mainVars

----------------------------------------------------------------------------
(* The calls explored: generate_multiple(count, **kw) *)

\* the shortest accepted length and the one below it
Lengths == {MinLength - 1, MinLength}

\* a non-positive minimum (range(n) is empty for every n <= 0), the default 1,
\* and the larger ones
MinRange == {-1} \cup (1..MaxMin)

Requests ==
    [length : Lengths,
     include_uppercase : BOOLEAN, include_lowercase : BOOLEAN,
     include_digits : BOOLEAN, include_special : BOOLEAN,
     exclude_ambiguous : BOOLEAN,
     custom_chars : CustomChoices,
     min_uppercase : MinRange, min_lowercase : MinRange,
     min_digits : MinRange, min_special : MinRange]

\* the requests explored with more than one call: the default minimums, no
\* custom characters, ambiguous characters excluded
RepeatedRequests ==
    {r \in Requests :
        /\ r.exclude_ambiguous /\ r.custom_chars = <<>>
        /\ r.min_uppercase = 1 /\ r.min_lowercase = 1
        /\ r.min_digits = 1 /\ r.min_special = 1}

NoAnalysis == [length |-> 0]
NoCli == [check |-> None]
NoKw == [length |-> 0]

Idle ==
    /\ char_pool = <<>>
    /\ required_chars = <<>>
    /\ password_chars = <<>>
    /\ draws = 0
    /\ raised = "none"
    /\ passwords = <<>>
    /\ analysis = NoAnalysis
    /\ char_pool_size = 0
    /\ score = 0
    /\ calls = {}
    /\ files = {}

Init ==
    /\ Idle
    /\ count \in 0..MaxCount
    /\ kw \in (IF count <= 1 THEN Requests ELSE RepeatedRequests)
    /\ pc = "gm_entry"
    /\ password = <<>>
    /\ cli = NoCli

Next ==
    \/ GenerateMultiple
    \/ CheckLength
    \/ LowercaseBlock
    \/ UppercaseBlock
    \/ DigitsBlock
    \/ SpecialBlock
    \/ CustomAndChecks
    \/ FillShuffleReturn

Spec == Init /\ [][Next]_vars

----------------------------------------------------------------------------
(* The passwords analysed: a prefix of distinct characters followed by one *)
(* character repeated                                                      *)

LowerUpper == <<"a","A","b","B","c","C","d","D","e","E","f","F","g","G","h","H","i","I","j","J">>
LowerDigit == <<"a","0","b","1","c","2","d","3","e","4","f","5","g","6","h","7","i","8","j","9">>
LowerUpperDigit == <<"a","A","0","b","B","1","c","C","2","d","D","3","e","E","4","f","F","5","g","G">>
LowerUpperSpecial == <<"a","A","!","b","B","@","c","C","#","d","D","$","e","E","%","f","F","^","g","G">>
AllClasses == <<"a","A","2","#","b","B","3","$","c","C","4","%","d","D","5","^","e","E","6","&">>
Foreign == <<"~", "`", "'", " ", "/">>

Bases ==
    {lowercase, uppercase, digits, special_chars, LowerUpper, LowerDigit,
     LowerUpperDigit, LowerUpperSpecial, AllClasses, Foreign}

RepeatChars == {"a", "Z", "0", "!", "~"}

Min(a, b) == IF a <= b THEN a ELSE b
Prefix(base, n) == SubSeq(base, 1, Min(n, Len(base)))
Repeat(c, k) == [i \in 1..k |-> c]

TestPasswords ==
    {Prefix(base, n) \o Repeat(c, k) :
        base \in Bases, n \in 0..MaxPrefix, c \in RepeatChars, k \in 0..MaxRepeat}

InitStrength ==
    /\ Idle
    /\ password \in TestPasswords
    /\ pc = "cs_entry"
    /\ kw = NoKw
    /\ count = 0
    /\ cli = NoCli

NextStrength == CheckStrength

SpecStrength == InitStrength /\ [][NextStrength]_vars

----------------------------------------------------------------------------
(* The command lines explored *)

CheckChoices == {None, Some(<<>>), Some(<<"a", "B", "7", "#">>)}
OutputChoices == {None, Some(<<>>), Some(<<"o", "u", "t">>)}

CliArgs ==
    [check : CheckChoices, output : OutputChoices, format : {"txt", "json"},
     quiet : BOOLEAN, show_strength : BOOLEAN,
     length : Lengths, count : 0..1,
     no_uppercase : BOOLEAN, no_lowercase : BOOLEAN,
     no_digits : BOOLEAN, no_special : BOOLEAN,
     exclude_ambiguous : BOOLEAN, custom_chars : {<<>>},
     min_uppercase : {1}, min_lowercase : {1}, min_digits : {1}, min_special : {1}]

InitMain ==
    /\ Idle
    /\ cli \in CliArgs
    /\ pc = "main_entry"
    /\ kw = NoKw
    /\ count = 0
    /\ password = <<>>

NextMain ==
    \/ Main
    \/ CheckStrength
    \/ MainAfterCheck
    \/ MainAfterGenerate
    \/ MainValueError
    \/ GenerateMultiple
    \/ CheckLength
    \/ LowercaseBlock
    \/ UppercaseBlock
    \/ DigitsBlock
    \/ SpecialBlock
    \/ CustomAndChecks
    \/ FillShuffleReturn

SpecMain == InitMain /\ [][NextMain]_vars

----------------------------------------------------------------------------
(* Vocabulary of the properties, stated independently of the operators above *)

Ambiguous == {"i", "l", "1", "L", "o", "0", "O"}

LowerSet == Range(lowercase)
UpperSet == Range(uppercase)
DigitSet == Range(digits)
SpecialSet == Range(special_chars)

\* a class's effective alphabet under a request
EffLower(r) == IF r.exclude_ambiguous THEN LowerSet \ Ambiguous ELSE LowerSet
EffUpper(r) == IF r.exclude_ambiguous THEN UpperSet \ Ambiguous ELSE UpperSet
EffDigit(r) == IF r.exclude_ambiguous THEN DigitSet \ Ambiguous ELSE DigitSet

\* the candidate pool of a request
CandidatePool(r) ==
    (IF r.include_lowercase THEN EffLower(r) ELSE {})
    \cup (IF r.include_uppercase THEN EffUpper(r) ELSE {})
    \cup (IF r.include_digits THEN EffDigit(r) ELSE {})
    \cup (IF r.include_special THEN SpecialSet ELSE {})
    \cup Range(r.custom_chars)

\* how many positions of s hold a character of S
CountIn(s, S) == Cardinality({j \in DOMAIN s : s[j] \in S})

\* the minimum of a class when it is included, 0 otherwise
MinOf(include, m) == IF include THEN m ELSE 0

SumOfMinimums(r) ==
    MinOf(r.include_lowercase, r.min_lowercase)
    + MinOf(r.include_uppercase, r.min_uppercase)
    + MinOf(r.include_digits, r.min_digits)
    + MinOf(r.include_special, r.min_special)

\* the same sum with a negative minimum counted as 0
SumOfPositiveMinimums(r) ==
    MinOf(r.include_lowercase, Max(r.min_lowercase, 0))
    + MinOf(r.include_uppercase, Max(r.min_uppercase, 0))
    + MinOf(r.include_digits, Max(r.min_digits, 0))
    + MinOf(r.include_special, Max(r.min_special, 0))

NoClassIncluded(r) ==
    ~(r.include_lowercase \/ r.include_uppercase \/ r.include_digits \/ r.include_special)

AllClassesIncluded(r) ==
    r.include_lowercase /\ r.include_uppercase /\ r.include_digits /\ r.include_special

DefaultMinimums(r) ==
    r.min_lowercase = 1 /\ r.min_uppercase = 1 /\ r.min_digits = 1 /\ r.min_special = 1

\* a call of generate_password has raised / has returned
HasRaised == raised # "none"
HasReturned == passwords # <<>>

----------------------------------------------------------------------------
(* C1: every password returned by generate_password has exactly the requested
   length, and the list returned by generate_multiple holds count passwords,
   each of exactly that length. *)
C1_ExactLength ==
    /\ \A i \in DOMAIN passwords : Len(passwords[i]) = kw.length
    /\ pc = "gm_done" => Len(passwords) = count

C1_Witness ==
    /\ pc = "gm_done" /\ count = 2 /\ Len(passwords) = 2
    /\ passwords[1] # passwords[2]
    /\ Len(passwords[2]) = 4 /\ Len(required_chars) = 3

(* C2: a returned password holds, for every included class, at least that
   class's minimum of characters of the class's effective alphabet, however
   the shuffle arranged them. *)
C2_ClassMinimums ==
    \A i \in DOMAIN passwords :
        /\ kw.include_lowercase => CountIn(passwords[i], EffLower(kw)) >= kw.min_lowercase
        /\ kw.include_uppercase => CountIn(passwords[i], EffUpper(kw)) >= kw.min_uppercase
        /\ kw.include_digits => CountIn(passwords[i], EffDigit(kw)) >= kw.min_digits
        /\ kw.include_special => CountIn(passwords[i], SpecialSet) >= kw.min_special

C2_Witness ==
    /\ HasReturned /\ kw.exclude_ambiguous
    /\ kw.include_lowercase /\ kw.min_lowercase = 2
    /\ kw.include_digits /\ kw.min_digits = 1
    /\ CountIn(passwords[1], EffLower(kw)) = 2
    /\ CountIn(passwords[1], EffDigit(kw)) = 1
    /\ passwords[1][1] \in DigitSet
    /\ passwords[1] # required_chars \o SubSeq(passwords[1], 4, 4)

(* C3: every character of a returned password belongs to the candidate pool
   (the effective alphabets of the included classes and custom_chars); a
   character of an excluded class appears only if custom_chars holds it. *)
C3_FromPool ==
    LET pool == CandidatePool(kw)
        custom == Range(kw.custom_chars)
    IN \A i \in DOMAIN passwords :
        LET used == Range(passwords[i]) IN
        /\ used \subseteq pool
        /\ ~kw.include_lowercase => (used \cap LowerSet) \subseteq custom
        /\ ~kw.include_uppercase => (used \cap UpperSet) \subseteq custom
        /\ ~kw.include_digits => (used \cap DigitSet) \subseteq custom
        /\ ~kw.include_special => (used \cap SpecialSet) \subseteq custom

C3_Witness ==
    /\ HasReturned
    /\ ~kw.include_lowercase /\ kw.include_uppercase
    /\ kw.custom_chars = <<"l">>
    /\ CountIn(passwords[1], {"l"}) = 1
    /\ CountIn(passwords[1], UpperSet) = 3

(* C4: whenever generate_password raises, no call of the secure random source
   has been made in that call. *)
C4_NoDrawBeforeError == HasRaised => draws = 0

(* C5 (as stated): generate_password raises exactly when length < 4, or no class
   is included and custom_chars is empty, or the sum of the minimums of the
   included classes exceeds length; otherwise it returns. *)
C5_Original ==
    LET error == \/ kw.length < 4
                 \/ NoClassIncluded(kw) /\ kw.custom_chars = <<>>
                 \/ SumOfMinimums(kw) > kw.length
    IN /\ HasRaised => error
       /\ HasReturned => ~error

(* C5 (amended): generate_password raises exactly when length < 4, or no class
   is included and custom_chars is empty, or the sum of the minimums of the
   included classes, a negative minimum counting as 0, exceeds length; otherwise
   it returns. With length 4, all four classes and minimum 1 each it returns a
   password made of the four required characters and no filler, custom_chars
   empty or not. *)
C5_ErrorsExactly ==
    LET error == \/ kw.length < 4
                 \/ NoClassIncluded(kw) /\ kw.custom_chars = <<>>
                 \/ SumOfPositiveMinimums(kw) > kw.length
    IN /\ HasRaised => error
       /\ HasReturned => ~error
       /\ pc \in {"gp_fill", "gm_done"} /\ count > 0 => ~error
       /\ kw.length = 4 /\ AllClassesIncluded(kw) /\ DefaultMinimums(kw) =>
             /\ ~HasRaised
             /\ HasReturned /\ pc \in {"gp_entry", "gm_done"} =>
                   Len(required_chars) = 4 /\ draws = 4

C5_Witness ==
    /\ HasReturned /\ pc = "gm_done"
    /\ kw.length = 4 /\ AllClassesIncluded(kw) /\ DefaultMinimums(kw)
    /\ kw.custom_chars # <<>>
    /\ Len(required_chars) = 4

(* C6: with exclude_ambiguous set, no required character is ambiguous, the
   pool holds no more ambiguous characters than custom_chars does, and an
   ambiguous character appears in a returned password only if custom_chars
   holds it (so none appears when custom_chars holds none). *)
C6_NoAmbiguous ==
    kw.exclude_ambiguous =>
        /\ CountIn(required_chars, Ambiguous) = 0
        /\ CountIn(char_pool, Ambiguous) <= CountIn(kw.custom_chars, Ambiguous)
        /\ \A i \in DOMAIN passwords : \A j \in DOMAIN passwords[i] :
              passwords[i][j] \in Ambiguous => passwords[i][j] \in Range(kw.custom_chars)

C6_Witness ==
    /\ HasReturned /\ kw.exclude_ambiguous
    /\ kw.include_lowercase /\ kw.include_uppercase /\ kw.include_digits
    /\ kw.custom_chars = <<"l">>
    /\ CountIn(passwords[1], Ambiguous) = 1
    /\ CountIn(passwords[1], LowerSet) = 2

----------------------------------------------------------------------------
(* Vocabulary of the strength properties *)

HasClass(p, S) == Range(p) \cap S # {}

\* the sum of the reference alphabet sizes of the classes present in p
InferredPool(p) ==
    (IF HasClass(p, LowerSet) THEN 26 ELSE 0) + (IF HasClass(p, UpperSet) THEN 26 ELSE 0)
    + (IF HasClass(p, DigitSet) THEN 10 ELSE 0) + (IF HasClass(p, SpecialSet) THEN 26 ELSE 0)

\* the least length n with n * log2(pool) >= 60, that is pool^n >= 2^60
LengthFor60Bits(pool) ==
    CASE pool = 10 -> 19
      [] pool = 26 -> 13
      [] pool = 36 -> 12
      [] pool \in {52, 62} -> 11
      [] pool \in {78, 88} -> 10

\* the scoring predicates a password satisfies
Satisfied(p) ==
    {k \in 1..8 :
        \/ k = 1 /\ Len(p) >= 8
        \/ k = 2 /\ Len(p) >= 12
        \/ k = 3 /\ HasClass(p, LowerSet)
        \/ k = 4 /\ HasClass(p, UpperSet)
        \/ k = 5 /\ HasClass(p, DigitSet)
        \/ k = 6 /\ HasClass(p, SpecialSet)
        \/ k = 7 /\ 5 * Cardinality(Range(p)) >= 4 * Len(p)
        \/ k = 8 /\ InferredPool(p) > 0 /\ Len(p) >= LengthFor60Bits(InferredPool(p))}

LabelOf(n) ==
    CASE n \in 0..2 -> "Very Weak"
      [] n \in 3..4 -> "Weak"
      [] n \in 5..6 -> "Moderate"
      [] n = 7 -> "Strong"
      [] n = 8 -> "Very Strong"

Analysed == pc = "cs_done"

(* C7 (as stated): for the empty password check_strength yields length 0, pool
   size 0, entropy 0, score 0 and the label Very Weak. *)
C7_Original ==
    Analysed /\ password = <<>> =>
        /\ analysis.length = 0 /\ char_pool_size = 0 /\ analysis.entropy = 0
        /\ score = 0
        /\ analysis.strength = "Very Weak"

(* C7 (amended): for the empty password check_strength yields length 0, pool
   size 0, entropy 0 and the label Very Weak; the score is 1, the predicate
   unique_chars >= 0.8 * length (0 >= 0) being the only one satisfied. *)
C7_EmptyPassword ==
    Analysed /\ password = <<>> =>
        /\ analysis.length = 0 /\ char_pool_size = 0 /\ analysis.entropy = 0
        /\ score = 1 /\ Satisfied(password) = {7}
        /\ analysis.strength = "Very Weak"

C7_Witness == Analysed /\ password = <<>> /\ analysis.unique_chars = 0

(* C8: the label is the one of the score, the number of satisfied predicates
   among the eight, with the pool size inferred from the classes present; an
   all-lowercase password of 8 distinct characters scores 3 and is Weak. *)
C8_LabelFromScore ==
    Analysed =>
        /\ char_pool_size = InferredPool(password)
        /\ score = Cardinality(Satisfied(password))
        /\ analysis.strength = LabelOf(score)
        /\ ( /\ Len(password) = 8
             /\ Range(password) \subseteq LowerSet
             /\ Cardinality(Range(password)) = 8 )
           => score = 3 /\ analysis.strength = "Weak"

C8_Witness ==
    /\ Analysed
    /\ Len(password) = 8 /\ Range(password) \subseteq LowerSet
    /\ Cardinality(Range(password)) = 8
    /\ analysis.strength = "Weak"

(* C10: the label is Very Strong exactly when the length is at least 12, all
   four classes are present and the distinct characters are at least 80% of the
   length; a password labelled Strong or Very Strong has length at least 8. *)
C10_VeryStrong ==
    Analysed =>
        /\ analysis.strength = "Very Strong" <=>
              /\ Len(password) >= 12
              /\ HasClass(password, LowerSet) /\ HasClass(password, UpperSet)
              /\ HasClass(password, DigitSet) /\ HasClass(password, SpecialSet)
              /\ 5 * Cardinality(Range(password)) >= 4 * Len(password)
        /\ analysis.strength \in {"Strong", "Very Strong"} => Len(password) >= 8

C10_Witness ==
    /\ Analysed /\ analysis.strength = "Very Strong"
    /\ Len(password) = 12 /\ analysis.unique_chars = 10

----------------------------------------------------------------------------
(* C9: when the command line gives --check with any value, the empty string
   included, nothing is generated: generate_multiple and generate_password are
   not called and no file is written. *)
C9_CheckBypassesGeneration ==
    cli.check # None =>
        /\ "generate_multiple" \notin calls /\ "generate_password" \notin calls
        /\ passwords = <<>>
        /\ files = {}

====
